---- MODULE Spec2Model ----
(***************************************************************************)
(* State-machine model of sqldef-preview-action.                           *)
(*                                                                         *)
(* The repository holds two implementations of the preview pipeline:       *)
(*   "main"  - src/src/main.ts, run() at lines 289-390                     *)
(*   "index" - src/src/index.js, run() at lines 225-393                    *)
(* A behaviour fixes one implementation and one workflow configuration     *)
(* (command, explicit baseline file, posting credential) and lets NumRuns  *)
(* runs of the action execute against one pull request.  Every action is   *)
(* one I/O boundary of run() (download, subprocess, comment API call)      *)
(* together with the synchronous code that follows it.                     *)
(***************************************************************************)
EXTENDS Integers, Sequences, FiniteSets, TLC

\* ------------------------------------------------------------------ bounds
NumRuns == 2
MaxOther == 1

Runs == 1..NumRuns

\* --------------------------------------------------------------- constants
Impls == {"main", "index"}

\* main.ts: the case labels of getCommandConfig's switch
MainCommands == {"psqldef", "mysqldef", "sqlite3def", "mssqldef"}

\* index.js: supportedTypes
SupportedTypes == {"mysql", "postgresql", "sqlite3", "mssql"}

\* a requested kind outside both tables
Unrecognized == "oracle"

\* the values of the "command" / "database-type" input the runs are given
MainRequested == {"psqldef", "mssqldef", Unrecognized}
IndexRequested == {"mysql", "sqlite3", Unrecognized}

SchemaFile == "schema.sql"
ExplicitBaselineFile == "baseline.sql"
TempFile == "tmp-schema.sql"

Events == {"pull_request", "push"}

\* account type of the posting credential; "none" = no token configured
TokenKinds == {"none", "Bot", "User"}

\* outcome of a comment API call
ApiOutcomes == {"ok", "forbidden", "server_error"}

\* what `git show <rev>:<path>` finds at the base revision
ShowOutcomes == {"absent", "error", "empty", "content"}

\* engine output, as a sequence of tokens: "ws" is a whitespace character,
\* the sentinels are the engine's nothing-to-apply texts, "ddl" is DDL text
WS == "ws"
Outputs ==
    { <<>>, <<WS>>, <<"ddl">>, <<WS, "ddl", WS>>,
      <<"Nothing is modified">>, <<"-- Nothing to apply --">> }

VARIABLES
    impl,       \* which implementation the workflow runs
    command,    \* input "command" (main.ts) / "database-type" (index.js)
    explicit,   \* input "baseline-schema-file" supplied (main.ts only)
    tokenKind,  \* posting credential
    comments,   \* the pull request's comments, in listing order
    nextId,     \* next comment id the platform hands out
    event,      \* per run: github.context.eventName
    onBase,     \* per run (index.js): currentBranch === baseBranch
    pc,         \* per run: position in run()
    tmp,        \* per run: the temporary baseline artifact
    baseRev,    \* per run: what the base revision held when read
    baseline,   \* per run: actualBaselineFile
    prev,       \* per run: previousComment id (0 = none found)
    tree,       \* per run (index.js): branch the working tree is on
    results,    \* per run (index.js): the outputs set with core.setOutput
    message,    \* per run: message passed to core.setFailed ("" = not failed)
    log,        \* per run: the externally visible calls, in order
    fn          \* one call of a helper function: its inputs and its result

vars ==
    << impl, command, explicit, tokenKind, comments, nextId, event, onBase,
       pc, tmp, baseRev, baseline, prev, tree, results, message, log, fn >>

config == << impl, command, explicit, tokenKind >>

\* ----------------------------------------------------------------- helpers
RECURSIVE TrimStart(_)
TrimStart(s) ==
    IF s # <<>> /\ Head(s) = WS THEN TrimStart(Tail(s)) ELSE s

RECURSIVE TrimEnd(_)
TrimEnd(s) ==
    IF s # <<>> /\ s[Len(s)] = WS THEN TrimEnd(SubSeq(s, 1, Len(s) - 1)) ELSE s

\* String.prototype.trim
Trim(s) == TrimEnd(TrimStart(s))

Includes(s, tok) == \E i \in 1..Len(s) : s[i] = tok

\* a comment carrying the preview title
Marked(c) == c.marker

MarkedCount == Cardinality({ i \in 1..Len(comments) : Marked(comments[i]) })

\* ------------------------------------------------------------ initial state
\* a comment of another automation, without the preview title
OtherComment(i) == [id |-> i, utype |-> "Bot", marker |-> FALSE]

\* comments already on the pull request that are not previews
InitialComments == { [i \in 1..n |-> OtherComment(i)] : n \in 0..MaxOther }

\* no output has been set with core.setOutput
NoResults == [set |-> FALSE, hasChanges |-> FALSE]

\* no helper function is examined on its own
NoCall == [op |-> "none", stage |-> "none"]

Init ==
    /\ fn = NoCall
    /\ impl \in Impls
    /\ command \in (IF impl = "main" THEN MainRequested ELSE IndexRequested)
    /\ explicit \in (IF impl = "main" THEN BOOLEAN ELSE {FALSE})
    /\ tokenKind \in TokenKinds
    /\ comments \in InitialComments
    /\ nextId = Len(comments) + 1
    /\ event \in [Runs -> Events]
    /\ onBase \in (IF impl = "index" THEN [Runs -> BOOLEAN] ELSE {[r \in Runs |-> FALSE]})
    /\ pc = [r \in Runs |-> "start"]
    /\ tmp = [r \in Runs |-> "none"]
    /\ baseRev = [r \in Runs |-> "unread"]
    /\ baseline = [r \in Runs |-> ""]
    /\ prev = [r \in Runs |-> 0]
    /\ tree = [r \in Runs |-> "current"]
    /\ results = [r \in Runs |-> NoResults]
    /\ message = [r \in Runs |-> ""]
    /\ log = [r \in Runs |-> <<>>]

\* ------------------------------------------------------ control-flow helpers
\* run() continues at `to` after making the calls `evs`
Goto(r, to, evs) ==
    /\ pc' = [pc EXCEPT ![r] = to]
    /\ log' = [log EXCEPT ![r] = @ \o evs]
    /\ message' = message
    /\ fn' = fn

\* variant: the catch block swallows the error without core.setFailed
FailSilently(r, msg, evs) ==
    /\ pc' = [pc EXCEPT ![r] = "Failed"]
    /\ log' = [log EXCEPT ![r] = @ \o evs]
    /\ message' = message
    /\ fn' = fn

\* an error reaches the catch block of run(): core.setFailed(msg)
Fail(r, msg, evs) ==
    /\ pc' = [pc EXCEPT ![r] = "Failed"]
    /\ log' = [log EXCEPT ![r] = @ \o evs]
    /\ message' = [message EXCEPT ![r] = msg]
    /\ fn' = fn

ExitCodes == {0, 1}

\* an engine invocation with --file `arg` (or mode `arg`) and its exit status
EngineCall(kind, arg, exit) == << <<kind, arg>>, <<"exit", ToString(exit)>> >>

\* ------------------------------------------------------- main.ts: decisions
\* variant: the explicit baseline file does not select the baseline branch
UsesBaselineModePullRequestOnly(ev, expl) == ev = "pull_request" /\ ~expl

\* main.ts 321: the baseline branch of run()
UsesBaselineMode(ev, expl) == (ev = "pull_request" /\ ~expl) \/ expl

\* main.ts 151-165: exit status of `git show <rev>:<path>`
ShowExitCode(found) == IF found \in {"absent", "error"} THEN 128 ELSE 0

\* variant: a failed read still returns the temporary file (absent = empty)
SchemaFromBranchAlwaysFile(found) == TempFile

\* main.ts 165-173: what getSchemaFromBranch returns
SchemaFromBranchResult(found) == IF ShowExitCode(found) # 0 THEN "" ELSE TempFile

\* variant: the test of line 336 inverted
AppliesBaselineInverted(file) == file = ""

\* main.ts 336: only apply the baseline when there is a file
AppliesBaseline(file) == file # ""

\* main.ts 338: the --file value of baselineConfig
BaselineFileArg(file) == file

\* variant: the exit status is ignored
RunSqldefNeverThrows(exit) == FALSE

\* main.ts 221-230: runSqldef throws on a non-zero exit
RunSqldefThrows(exit) == exit # 0

\* main.ts 354 / 376: output.trim() is truthy
MainHasChanges(out) == Trim(out) # <<>>

\* variant: the test for an explicit baseline file is missing
PostsCommentWithExplicit(ev, expl) == ev = "pull_request"

\* main.ts 358 / 364: only comment for pull request events without explicit baseline
PostsComment(ev, expl) == ev = "pull_request" /\ ~expl

\* main.ts 369: fs.existsSync(actualBaselineFile); the file that the workflow
\* names is in the checkout, the temporary one is there until it is unlinked
BaselineFileExists(expl, temp) == expl \/ temp = "exists"

\* variant: the token check of createComment is missing
CreateCommentSkipsEventOnly(ev, tok) == ev # "pull_request"

\* main.ts 239-248: createComment returns before any API call
CreateCommentSkips(ev, tok) == ev # "pull_request" \/ tok = "none"

\* main.ts 260: comments.find(user.type === "Bot" && body.includes(title))
RECURSIVE FindFrom(_, _)
FindFrom(cs, i) ==
    IF i > Len(cs) THEN 0
    ELSE IF cs[i].utype = "Bot" /\ cs[i].marker THEN cs[i].id
    ELSE FindFrom(cs, i + 1)

FindPrevious(cs) == FindFrom(cs, 1)

\* variant: a successful response is treated as an error too
WriteAlwaysThrows(res) == TRUE

\* main.ts 273 / 280: the awaited updateComment / createComment call rejects
WriteThrows(res) == res # "ok"

\* variant: the test for a file named by the workflow is missing
RemovesArtifactAlsoExplicit(expl, file, exists) == file # "" /\ exists

\* main.ts 369: the temporary artifact is removed
RemovesArtifact(expl, file, exists) == ~expl /\ file # "" /\ exists

\* main.ts 354-367: where run() continues once the output is interpreted
AfterInterpret(ev, expl, tok) ==
    IF ~UsesBaselineMode(ev, expl) THEN "Done"
    ELSE IF PostsComment(ev, expl) /\ ~CreateCommentSkips(ev, tok) THEN "list"
    ELSE "cleanup"

InterpretEvent(changes) == <<"interpret", IF changes THEN "changes" ELSE "nochanges">>

\* -------------------------------------------------------- main.ts: actions
\* main.ts 291-299: read the inputs, downloadSqldef(command, version)
MainDownload(r) ==
    /\ impl = "main" /\ pc[r] = "start"
    /\ \E ok \in BOOLEAN :
         IF ok THEN Goto(r, "verify", << <<"download", command>> >>)
         ELSE Fail(r, "download failed", << <<"download", command>> >>)
    /\ UNCHANGED << config, comments, nextId, event, onBase, tmp, baseRev, baseline,
                    prev, tree, results >>

\* main.ts 314-336: getCommandConfig and the choice of the baseline
MainAfterVerify(r) ==
    IF command \notin MainCommands THEN "Failed"
    ELSE IF ~UsesBaselineMode(event[r], explicit) THEN "current"
    ELSE IF ~explicit THEN "fetch"
    ELSE IF AppliesBaseline(ExplicitBaselineFile) THEN "baseline"
    ELSE "current"

\* main.ts 301-336: `<binary> --version`, then getCommandConfig and the mode
MainVerify(r) ==
    /\ impl = "main" /\ pc[r] = "verify"
    /\ \E exit \in ExitCodes :
         LET ev == << <<"engine", "--version">> >> IN
         IF exit # 0
         THEN Fail(r, "version check failed", ev) /\ baseline' = baseline
         ELSE IF MainAfterVerify(r) = "Failed"
         THEN Fail(r, "Unsupported command", ev) /\ baseline' = baseline
         ELSE /\ Goto(r, MainAfterVerify(r), ev)
              /\ baseline' = [baseline EXCEPT ![r] =
                                IF explicit THEN ExplicitBaselineFile ELSE @]
    /\ UNCHANGED << config, comments, nextId, event, onBase, tmp, baseRev,
                    prev, tree, results >>

\* main.ts 325-327: git fetch origin <base>
MainFetch(r) ==
    /\ impl = "main" /\ pc[r] = "fetch"
    /\ \E ok \in BOOLEAN :
         IF ok THEN Goto(r, "show", << <<"git", "fetch">> >>)
         ELSE Fail(r, "git fetch failed", << <<"git", "fetch">> >>)
    /\ UNCHANGED << config, comments, nextId, event, onBase, tmp, baseRev, baseline,
                    prev, tree, results >>

\* main.ts 330, 145-174, 336: getSchemaFromBranch and the baseline decision
MainShow(r) ==
    /\ impl = "main" /\ pc[r] = "show"
    /\ \E found \in ShowOutcomes :
         LET file == SchemaFromBranchResult(found) IN
         /\ baseRev' = [baseRev EXCEPT ![r] = found]
         /\ baseline' = [baseline EXCEPT ![r] = file]
         /\ tmp' = [tmp EXCEPT ![r] = IF ShowExitCode(found) # 0 THEN "removed" ELSE "exists"]
         /\ Goto(r, IF AppliesBaseline(file) THEN "baseline" ELSE "current",
                 << <<"git", "show">> >>)
    /\ UNCHANGED << config, comments, nextId, event, onBase, prev, tree, results >>

\* main.ts 337-346: runSqldef(binaryPath, baselineConfig)
MainApplyBaseline(r) ==
    /\ impl = "main" /\ pc[r] = "baseline"
    /\ \E exit \in ExitCodes :
         LET ev == EngineCall("baseline", BaselineFileArg(baseline[r]), exit) IN
         IF RunSqldefThrows(exit) THEN Fail(r, "Command failed with exit code", ev)
         ELSE Goto(r, "current", ev)
    /\ UNCHANGED << config, comments, nextId, event, onBase, tmp, baseRev, baseline,
                    prev, tree, results >>

\* main.ts 351-367 / 373-381: runSqldef(binaryPath, config), then output.trim()
MainApplyCurrent(r) ==
    /\ impl = "main" /\ pc[r] = "current"
    /\ \E exit \in ExitCodes, out \in Outputs :
         LET ev == EngineCall("current", SchemaFile, exit) IN
         IF RunSqldefThrows(exit)
         THEN Fail(r, "Command failed with exit code", ev)
         ELSE Goto(r, AfterInterpret(event[r], explicit, tokenKind),
                   ev \o << InterpretEvent(MainHasChanges(out)) >>)
    /\ UNCHANGED << config, comments, nextId, event, onBase, tmp, baseRev, baseline,
                    prev, tree, results >>

\* main.ts 250-260: listComments, then find the previous comment
MainListComments(r) ==
    /\ impl = "main" /\ pc[r] = "list"
    /\ \E res \in ApiOutcomes :
         IF res = "ok"
         THEN /\ Goto(r, "write", << <<"list", "ok">> >>)
              /\ prev' = [prev EXCEPT ![r] = FindPrevious(comments)]
         ELSE /\ Fail(r, res, << <<"list", res>> >>)
              /\ prev' = prev
    /\ UNCHANGED << config, comments, nextId, event, onBase, tmp, baseRev, baseline,
                    tree, results >>

\* a comment posted with the run's credential
NewComment(id, tok) == [id |-> id, utype |-> tok, marker |-> TRUE]

\* main.ts 272-286: updateComment when a previous comment was found, else createComment
MainWriteComment(r) ==
    /\ impl = "main" /\ pc[r] = "write"
    /\ \E res \in ApiOutcomes :
         LET call == IF prev[r] # 0 THEN "update" ELSE "create"
             id   == IF prev[r] # 0 THEN prev[r] ELSE nextId
             ev   == << <<call, res>> >>
                     \o (IF res = "ok" THEN << <<"posted", ToString(id)>> >> ELSE <<>>)
         IN
         /\ IF WriteThrows(res) THEN Fail(r, res, ev) ELSE Goto(r, "cleanup", ev)
         /\ comments' = IF res = "ok" /\ prev[r] = 0
                        THEN Append(comments, NewComment(nextId, tokenKind))
                        ELSE comments
         /\ nextId' = IF res = "ok" /\ prev[r] = 0 THEN nextId + 1 ELSE nextId
    /\ UNCHANGED << config, event, onBase, tmp, baseRev, baseline, prev,
                    tree, results >>

\* main.ts 369-371: remove the temporary artifact at the end of the baseline branch
MainCleanup(r) ==
    /\ impl = "main" /\ pc[r] = "cleanup"
    /\ LET rm == RemovesArtifact(explicit, baseline[r],
                                 BaselineFileExists(explicit, tmp[r])) IN
         /\ tmp' = [tmp EXCEPT ![r] = IF rm THEN "removed" ELSE @]
         /\ Goto(r, "Done", IF rm THEN << <<"unlink", baseline[r]>> >> ELSE <<>>)
    /\ UNCHANGED << config, comments, nextId, event, onBase, baseRev, baseline,
                    prev, tree, results >>

MainNext(r) ==
    \/ MainDownload(r)
    \/ MainVerify(r)
    \/ MainFetch(r)
    \/ MainShow(r)
    \/ MainApplyBaseline(r)
    \/ MainApplyCurrent(r)
    \/ MainListComments(r)
    \/ MainWriteComment(r)
    \/ MainCleanup(r)

\* ------------------------------------------------------ index.js: decisions
\* index.js 361-364: hasChanges of the trimmed dry-run output
IndexHasChanges(out) ==
    /\ Len(Trim(out)) > 0
    /\ ~Includes(Trim(out), "Nothing is modified")
    /\ ~Includes(Trim(out), "-- Nothing to apply --")

\* index.js 378: comment only with a token and in a pull request context
IndexComments(ev, tok) == tok # "none" /\ ev = "pull_request"

\* index.js 310: a non-zero exit of the baseline apply is only a warning
BaselineWarns(exit) == exit # 0

\* index.js 353: a non-zero exit of the dry run is fatal
DryRunThrows(exit) == exit # 0

\* -------------------------------------------------------- index.js: actions
\* index.js 228-295: validate the inputs, downloadSqldef, current branch.
\* GITHUB_HEAD_REF / GITHUB_REF_NAME name the current branch on a runner.
IndexDownload(r) ==
    /\ impl = "index" /\ pc[r] = "start"
    /\ \E fileExists \in BOOLEAN, ok \in BOOLEAN :
         IF command \notin SupportedTypes THEN Fail(r, "Unsupported database type", <<>>)
         ELSE IF ~fileExists THEN Fail(r, "Schema file not found", <<>>)
         ELSE IF ~ok THEN Fail(r, "Failed to download sqldef binary",
                               << <<"download", command>> >>)
         ELSE Goto(r, IF onBase[r] THEN "same_apply" ELSE "fetch",
                   << <<"download", command>>, <<"chmod", "+x">> >>)
    /\ UNCHANGED << config, comments, nextId, event, onBase, tmp, baseRev, baseline,
                    prev, tree, results >>

\* index.js 297-299, 325-328: git fetch origin <base>; a failure is a warning
IndexFetch(r) ==
    /\ impl = "index" /\ pc[r] = "fetch"
    /\ \E ok \in BOOLEAN :
         IF ok THEN Goto(r, "checkout", << <<"git", "fetch">> >>)
         ELSE Goto(r, "dryrun", << <<"git", "fetch">>, <<"warning", "fetch">> >>)
    /\ UNCHANGED << config, comments, nextId, event, onBase, tmp, baseRev, baseline,
                    prev, tree, results >>

\* index.js 302-303, 321-324: git checkout <base>; a failure is a warning
IndexCheckoutBase(r) ==
    /\ impl = "index" /\ pc[r] = "checkout"
    /\ \E ok \in BOOLEAN :
         IF ok
         THEN /\ Goto(r, "base_apply", << <<"git", "checkout-base">> >>)
              /\ tree' = [tree EXCEPT ![r] = "base"]
         ELSE /\ Goto(r, "dryrun", << <<"git", "checkout-base">>, <<"warning", "checkout">> >>)
              /\ tree' = tree
    /\ UNCHANGED << config, comments, nextId, event, onBase, tmp, baseRev, baseline,
                    prev, results >>

\* index.js 305-316: apply the schema of the base branch
IndexApplyBase(r) ==
    /\ impl = "index" /\ pc[r] = "base_apply"
    /\ \E exit \in ExitCodes :
         Goto(r, "checkout_back",
              EngineCall("baseline", "apply", exit)
              \o (IF BaselineWarns(exit) THEN << <<"warning", "baseline">> >> ELSE <<>>))
    /\ UNCHANGED << config, comments, nextId, event, onBase, tmp, baseRev, baseline,
                    prev, tree, results >>

\* index.js 318-324: git checkout <current>; a failure is caught as a warning
IndexCheckoutBack(r) ==
    /\ impl = "index" /\ pc[r] = "checkout_back"
    /\ \E ok \in BOOLEAN :
         IF ok
         THEN /\ Goto(r, "dryrun", << <<"git", "checkout-current">> >>)
              /\ tree' = [tree EXCEPT ![r] = "current"]
         ELSE /\ Goto(r, "dryrun", << <<"git", "checkout-current">>, <<"warning", "checkout">> >>)
              /\ tree' = tree
    /\ UNCHANGED << config, comments, nextId, event, onBase, tmp, baseRev, baseline,
                    prev, results >>

\* index.js 329-346: already on the base branch, apply the current schema as baseline
IndexApplySame(r) ==
    /\ impl = "index" /\ pc[r] = "same_apply"
    /\ \E exit \in ExitCodes :
         Goto(r, "dryrun",
              EngineCall("baseline", "apply", exit)
              \o (IF BaselineWarns(exit) THEN << <<"warning", "baseline">> >> ELSE <<>>))
    /\ UNCHANGED << config, comments, nextId, event, onBase, tmp, baseRev, baseline,
                    prev, tree, results >>

\* index.js 348-387: the dry run, hasChanges, the outputs, the choice to comment
IndexDryRun(r) ==
    /\ impl = "index" /\ pc[r] = "dryrun"
    /\ \E exit \in ExitCodes, out \in Outputs :
         LET ev == EngineCall("current", "--dry-run", exit) IN
         IF DryRunThrows(exit)
         THEN /\ Fail(r, "sqldef --dry-run failed", ev)
              /\ results' = results
         ELSE /\ Goto(r, IF IndexComments(event[r], tokenKind) THEN "comment" ELSE "Done",
                      ev \o << InterpretEvent(IndexHasChanges(out)) >>)
              /\ results' = [results EXCEPT ![r] =
                               [set |-> TRUE, hasChanges |-> IndexHasChanges(out)]]
    /\ UNCHANGED << config, comments, nextId, event, onBase, tmp, baseRev, baseline,
                    prev, tree >>

\* index.js 179-220: commentOnPR always calls createComment; a failure is a warning
IndexComment(r) ==
    /\ impl = "index" /\ pc[r] = "comment"
    /\ \E res \in ApiOutcomes :
         IF res = "ok"
         THEN /\ Goto(r, "Done", << <<"create", res>>, <<"posted", ToString(nextId)>> >>)
              /\ comments' = Append(comments, NewComment(nextId, tokenKind))
              /\ nextId' = nextId + 1
         ELSE /\ Goto(r, "Done", << <<"create", res>>, <<"warning", "comment">> >>)
              /\ UNCHANGED << comments, nextId >>
    /\ UNCHANGED << config, event, onBase, tmp, baseRev, baseline, prev,
                    tree, results >>

IndexNext(r) ==
    \/ IndexDownload(r)
    \/ IndexFetch(r)
    \/ IndexCheckoutBase(r)
    \/ IndexApplyBase(r)
    \/ IndexCheckoutBack(r)
    \/ IndexApplySame(r)
    \/ IndexDryRun(r)
    \/ IndexComment(r)

\* ------------------------------------------------------------ specification
Next == \E r \in Runs : MainNext(r) \/ IndexNext(r)

Spec == Init /\ [][Next]_vars

\* every variable holds a value of its kind
TypeOK ==
    /\ impl \in Impls
    /\ tokenKind \in TokenKinds
    /\ explicit \in BOOLEAN
    /\ \A r \in Runs :
         /\ event[r] \in Events
         /\ tmp[r] \in {"none", "exists", "removed"}
         /\ tree[r] \in {"current", "base"}
         /\ baseline[r] \in {"", ExplicitBaselineFile, TempFile}

\* ------------------------------------------------- helper functions alone
\* The second specification examines one call of a helper function of the
\* action on inputs drawn from bounded sets: the configuration builder with
\* the debug echo of runSqldef, the reading of the engine's output, and the
\* choice of the release artifact.  The runs of the first specification
\* stay idle in it.

\* longest engine output, in tokens
MaxOutLen == 3

\* an input the workflow leaves out reads as the empty string
HostInputs == {"", "db.internal"}
PortInputs == {"", "13306"}
UserInputs == {"", "app"}
\* a database may bear the name of the schema file
DatabaseInputs == {"", "appdb", SchemaFile}
ConfigFileInputs == {"", "sqldef.yml"}
\* a password is a sequence of tokens: absent, only whitespace, or a secret
PasswordInputs == {<<>>, <<WS>>, <<"s3cret">>}

\* os.platform() and os.arch() of the runner
Platforms == {"linux", "darwin", "win32", "freebsd"}
Archs == {"x64", "arm64", "arm", "ia32", "mips"}
Versions == {"latest", "v3.0.0"}

\* one command line argument: the parts of the string, in order
Arg(s) == << s >>

\* variant: no default is substituted
OrDefaultNone(v, d) == v

\* core.getInput(name) || default
OrDefault(v, d) == IF v = "" THEN d ELSE v

\* main.ts 84, 97, 119: the default host of each command
DefaultHost(cmd) == "localhost"

\* main.ts 85, 98, 120: the default port of each command
DefaultPort(cmd) ==
    CASE cmd = "psqldef" -> "5432"
      [] cmd = "mysqldef" -> "3306"
      [] OTHER -> "1433"

\* main.ts 88, 101, 123: -p is the port flag of psqldef, -P of the others
PortFlag(cmd) == IF cmd = "psqldef" THEN "-p" ELSE "-P"

\* main.ts 89, 102, 124
UserFlag(cmd) == IF cmd = "mysqldef" THEN "-u" ELSE "-U"

\* variant: the flag is pushed whatever the password is
PasswordArgEmittedAlways(pw) == TRUE

\* main.ts 105, 126: password && password.trim() !== ""
PasswordArgEmitted(pw) == pw # <<>> /\ Trim(pw) # <<>>

\* main.ts 106, 127: the single argument `-p${password}`
PasswordArg(cmd, pw) ==
    IF cmd \in {"mysqldef", "mssqldef"} /\ PasswordArgEmitted(pw)
    THEN << <<"-p">> \o pw >>
    ELSE <<>>

\* variant: no command receives its password through the environment
PasswordEnvNone(cmd, pw) == {}

\* main.ts 91: if (password) config.env = { ...config.env, PGPASSWORD: password }
PasswordEnv(cmd, pw) ==
    IF cmd = "psqldef" /\ pw # <<>> THEN { <<"PGPASSWORD", pw>> } ELSE {}

\* an argument pushed only when its value is not empty
Optional(v) == IF v # "" THEN << Arg(v) >> ELSE <<>>

\* variant: the value is pushed without its flag
FlaggedValueOnly(flag, v) == IF v # "" THEN << Arg(v) >> ELSE <<>>

\* a flag and its value, pushed only when the value is not empty
Flagged(flag, v) == IF v # "" THEN << Arg(flag), Arg(v) >> ELSE <<>>

\* main.ts 81-131: the connection arguments of each command
ConnectionArgs(cmd, in) ==
    IF cmd = "sqlite3def"
    THEN Optional(in.database)
    ELSE << Arg("-h"), Arg(OrDefault(in.host, DefaultHost(cmd))),
            Arg(PortFlag(cmd)), Arg(OrDefault(in.port, DefaultPort(cmd))) >>
         \o Flagged(UserFlag(cmd), in.user)
         \o PasswordArg(cmd, in.password)
         \o Optional(in.database)

\* the builder threw
ConfigError(msg) == [ok |-> FALSE, args |-> <<>>, env |-> {}, error |-> msg]

\* main.ts 70-143: getCommandConfig
GetCommandConfig(cmd, in) ==
    IF cmd \notin MainCommands
    THEN ConfigError("Unsupported command")
    ELSE [ok    |-> TRUE,
          args  |-> ConnectionArgs(cmd, in)
                    \o Flagged("--config", in.configFile)
                    \o << Arg("--file"), Arg(in.schemaFile) >>,
          env   |-> PasswordEnv(cmd, in.password),
          error |-> ""]

\* index.js 97, 105, 117: if (inputs['...-password']) args.push('--password', value)
IndexPasswordArgs(pw) == IF pw # <<>> THEN << Arg("--password"), pw >> ELSE <<>>

\* index.js 93-120: the connection arguments of each database type
IndexConnectionArgs(type, in) ==
    IF type = "sqlite3"
    THEN Optional(in.database)
    ELSE Flagged("--host", in.host)
         \o Flagged("--port", in.port)
         \o Flagged("--user", in.user)
         \o IndexPasswordArgs(in.password)
         \o Optional(in.database)

\* index.js 89-145: buildSqldefArgs; the action passes no environment overlay
BuildSqldefArgs(type, in) ==
    IF type \notin SupportedTypes
    THEN ConfigError("Unsupported database type")
    ELSE [ok    |-> TRUE,
          args  |-> IndexConnectionArgs(type, in)
                    \o (IF in.dryRun THEN << Arg("--dry-run") >> ELSE <<>>)
                    \o (IF in.enableDrop THEN << Arg("--enable-drop") >> ELSE <<>>)
                    \o Flagged("--config", in.configFile)
                    \o Flagged("--file", in.schemaFile),
          env   |-> {},
          error |-> ""]

\* main.ts 190: the token after which the debug echo masks an argument
MaskedAfter == "-P"

\* main.ts 189-196: the arguments as the debug line of runSqldef shows them
SanitizedArgs(args) ==
    [i \in 1..Len(args) |->
        IF i > 1 /\ args[i - 1] = Arg(MaskedAfter) THEN Arg("***") ELSE args[i]]

\* main.ts 23-35, index.js 19-27: the release name of the platform, "" if none
OsName(platform) ==
    CASE platform = "linux" -> "linux"
      [] platform = "darwin" -> "darwin"
      [] platform = "win32" -> "windows"
      [] OTHER -> ""

\* main.ts 37-46: the release name of the architecture, "" if none
MainArchName(arch) ==
    CASE arch = "x64" -> "amd64"
      [] arch = "arm64" -> "arm64"
      [] OTHER -> ""

\* index.js 29-39
IndexArchName(arch) ==
    CASE arch = "x64" -> "amd64"
      [] arch = "arm64" -> "arm64"
      [] arch = "arm" -> "arm"
      [] arch = "ia32" -> "386"
      [] OTHER -> ""

\* index.js 42-47: binaryMap, "" if the type has no entry
BinaryName(type) ==
    CASE type = "mysql" -> "mysqldef"
      [] type = "postgresql" -> "psqldef"
      [] type = "sqlite3" -> "sqlite3def"
      [] type = "mssql" -> "mssqldef"
      [] OTHER -> ""

\* variant: archives are tarballs on every platform
ExtensionTarOnly(osName) == "tar.gz"

\* index.js 55: const extension = osName === 'windows' ? 'zip' : 'tar.gz'
Extension(osName) == IF osName = "windows" THEN "zip" ELSE "tar.gz"

\* the tool could not be resolved: nothing is downloaded
ResolveError(msg) == [ok |-> FALSE, file |-> <<>>, path |-> <<>>, error |-> msg]

\* the artifact <binary>_<os>_<arch>.<ext> under the release path
Resolved(file, path) == [ok |-> TRUE, file |-> file, path |-> path, error |-> ""]

\* main.ts 15-59: downloadSqldef up to tc.downloadTool
MainResolve(cmd, platform, arch, version) ==
    IF OsName(platform) = "" THEN ResolveError("Unsupported platform")
    ELSE IF MainArchName(arch) = "" THEN ResolveError("Unsupported architecture")
    ELSE Resolved(<< cmd, OsName(platform), MainArchName(arch), "tar.gz" >>,
                  IF version = "latest"
                  THEN << "releases", "latest", "download" >>
                  ELSE << "releases", "download", version >>)

\* index.js 12-69: downloadSqldef up to tc.downloadTool
IndexResolve(type, platform, arch, version) ==
    IF OsName(platform) = "" THEN ResolveError("Unsupported platform")
    ELSE IF IndexArchName(arch) = "" THEN ResolveError("Unsupported architecture")
    ELSE IF BinaryName(type) = "" THEN ResolveError("Unsupported database type")
    ELSE Resolved(<< BinaryName(type), OsName(platform), IndexArchName(arch),
                     Extension(OsName(platform)) >>,
                  << "releases", "download", version >>)

\* index.js 361-364: the texts that mean the engine found nothing to do
Sentinels == {"Nothing is modified", "-- Nothing to apply --"}

OutputTokens == {WS, "ddl"} \cup Sentinels

\* every engine output of at most MaxOutLen tokens
OutputsUpTo == UNION { [1..n -> OutputTokens] : n \in 0..MaxOutLen }

\* the builder has not run
NoConfig == ConfigError("")

\* most comments in one listing
MaxListed == 3

\* most chunks that git show writes to its standard output
MaxChunks == 2

\* every standard output of at most MaxChunks chunks
ChunksUpTo == UNION { [1..n -> {"create", "alter"}] : n \in 0..MaxChunks }

\* no temporary file
NoFile == [exists |-> FALSE, content |-> <<>>]

\* main.ts 149, 154-156: writeFileSync(tempFile, ""), then appendFileSync
\* of every chunk in turn
RECURSIVE AppendChunks(_, _)
AppendChunks(content, chunks) ==
    IF chunks = <<>> THEN content
    ELSE AppendChunks(Append(content, Head(chunks)), Tail(chunks))

\* variant: the temporary file is left in place on a failed read
TempFileAfterReadKept(found, chunks) ==
    [exists |-> TRUE, content |-> AppendChunks(<<>>, chunks)]

\* main.ts 149-173: the temporary file when getSchemaFromBranch returns
TempFileAfterRead(found, chunks) ==
    IF ShowExitCode(found) # 0 THEN NoFile
    ELSE [exists |-> TRUE, content |-> AppendChunks(<<>>, chunks)]

\* the steps of run() that invoke the engine
Steps == {"baseline", "current"}

\* variant: every invocation is built with the option
DryRunOptionAlways(step) == TRUE

\* index.js 307, 334 / 350: only the preview is built with { dryRun: true }
DryRunOption(step) == step = "current"

\* variant: every argument equal to the schema file path is kept
BaselineArgsUnchanged(args, schemaFile, file) == args

\* main.ts 338: args.map((arg) => (arg === schemaFile ? actualBaselineFile : arg))
BaselineArgs(args, schemaFile, file) ==
    [i \in 1..Len(args) |-> IF args[i] = Arg(schemaFile) THEN Arg(file) ELSE args[i]]

\* main.ts 337-338: the baseline configuration, a shallow copy with new args
BaselineConfig(cfg, schemaFile, file) ==
    [cfg EXCEPT !.args = BaselineArgs(cfg.args, schemaFile, file)]

\* main.ts 488, 506 (earlier revision): -p<password> for mysqldef, the pair
\* -p <password> for mssqldef, whenever the password is not empty
EarlierPasswordArgs(cmd, pw) ==
    IF pw = <<>> THEN <<>>
    ELSE IF cmd = "mysqldef" THEN << <<"-p">> \o pw >>
    ELSE IF cmd = "mssqldef" THEN << Arg("-p"), pw >>
    ELSE <<>>

\* main.ts 466-510 (earlier revision): the connection arguments
EarlierConnectionArgs(cmd, in) ==
    IF cmd = "sqlite3def"
    THEN Optional(in.database)
    ELSE << Arg("-h"), Arg(OrDefault(in.host, DefaultHost(cmd))),
            Arg(PortFlag(cmd)), Arg(OrDefault(in.port, DefaultPort(cmd))) >>
         \o Flagged(UserFlag(cmd), in.user)
         \o EarlierPasswordArgs(cmd, in.password)
         \o Optional(in.database)

\* main.ts 455-521 (earlier revision): getCommandConfig
EarlierGetCommandConfig(cmd, in) ==
    IF cmd \notin MainCommands
    THEN ConfigError("Unsupported command")
    ELSE [ok    |-> TRUE,
          args  |-> EarlierConnectionArgs(cmd, in)
                    \o Flagged("--config", in.configFile)
                    \o << Arg("--file"), Arg(in.schemaFile) >>,
          env   |-> PasswordEnv(cmd, in.password),
          error |-> ""]

\* process.env when the engine is started
AmbientEnvs ==
    SUBSET { <<"PATH", <<"/usr/bin">> >>, <<"PGPASSWORD", <<"inherited">> >> }

\* variant: an ambient variable keeps its value on a name clash
ExecEnvAmbientWins(ambient, overlay) ==
    ambient \cup { o \in overlay : \A e \in ambient : e[1] # o[1] }

\* main.ts 181-187: a copy of process.env, then Object.assign(execEnv, config.env)
ExecEnv(ambient, overlay) ==
    { e \in ambient : \A o \in overlay : o[1] # e[1] } \cup overlay

\* what the engine writes to its standard output
Captured == { <<>>, <<"ddl">> }

\* main.ts 221-233: throw on a non-zero exit, else return output + stderr
MainRunResult(exit, out) ==
    IF RunSqldefThrows(exit)
    THEN [threw |-> TRUE, exitCode |-> exit, stdout |-> <<>>, stderr |-> <<>>]
    ELSE [threw |-> FALSE, exitCode |-> exit, stdout |-> out, stderr |-> <<>>]

\* index.js 167-173: return { exitCode, stdout, stderr }
IndexRunResult(exit, out) ==
    [threw |-> FALSE, exitCode |-> exit, stdout |-> out, stderr |-> <<>>]

\* the author and the title of one listed comment
CommentKinds == [utype : {"Bot", "User"}, marker : BOOLEAN]

\* every listing of at most MaxListed comments, in listing order
ListedComments ==
    UNION { { [i \in 1..n |-> [id |-> i, utype |-> ks[i].utype, marker |-> ks[i].marker]] :
              ks \in [1..n -> CommentKinds] } : n \in 0..MaxListed }

\* the engine has not been run
NoRun == [threw |-> FALSE, exitCode |-> 0, stdout |-> <<>>, stderr |-> <<>>]

\* the inputs of the workflow that reach the configuration builders
ConfigInputs ==
    [host : HostInputs, port : PortInputs, user : UserInputs,
     password : PasswordInputs, database : DatabaseInputs,
     configFile : ConfigFileInputs, schemaFile : {SchemaFile},
     dryRun : BOOLEAN, enableDrop : BOOLEAN]

\* the calls of the configuration builder that are examined, each for one
\* step of run(), with what runSqldef then makes of the configuration
ConfigCalls ==
    { [op |-> "config", stage |-> "input", step |-> step, in |-> in,
       cfg |-> NoConfig, line |-> <<>>, secrets |-> {},
       base |-> NoConfig, baseFile |-> "",
       ambient |-> {}, processEnv |-> {}, env |-> {},
       exit |-> 0, ran |-> NoRun] :
      in \in ConfigInputs, step \in Steps }

\* the calls of the configuration builder of the earlier revision
EarlierCalls ==
    { [op |-> "earlier", stage |-> "input", in |-> in, cfg |-> NoConfig] :
      in \in ConfigInputs }

\* the reads of the base revision that are examined: what git show finds and
\* the chunks it writes to its standard output
ShowCalls ==
    { [op |-> "show", stage |-> "input", found |-> found, chunks |-> chunks,
       file |-> NoFile, returned |-> ""] :
      found \in ShowOutcomes, chunks \in ChunksUpTo }

\* the comment listings on which the search for the previous comment is examined
FindCalls ==
    { [op |-> "find", stage |-> "input", listed |-> cs, target |-> 0,
       write |-> "none"] : cs \in ListedComments }

\* the engine outputs whose reading is examined
InterpretCalls ==
    { [op |-> "interpret", stage |-> "input", out |-> out,
       hasChanges |-> FALSE, body |-> ""] : out \in OutputsUpTo }

\* the runners on which the choice of the artifact is examined
ResolveCalls ==
    { [op |-> "resolve", stage |-> "input", platform |-> p, arch |-> a,
       version |-> v, res |-> ResolveError("")] :
      p \in Platforms, a \in Archs, v \in Versions }

\* the variables of the runs
pipeline == << config, comments, nextId, event, onBase, pc, tmp, baseRev,
               baseline, prev, tree, results, message, log >>

HelperInit ==
    /\ impl \in Impls
    /\ command \in (IF impl = "main" THEN MainCommands ELSE SupportedTypes)
                   \cup {Unrecognized}
    /\ explicit = FALSE
    /\ tokenKind = "none"
    /\ comments = <<>>
    /\ nextId = 1
    /\ event = [r \in Runs |-> "push"]
    /\ onBase = [r \in Runs |-> FALSE]
    /\ pc = [r \in Runs |-> "idle"]
    /\ tmp = [r \in Runs |-> "none"]
    /\ baseRev = [r \in Runs |-> "unread"]
    /\ baseline = [r \in Runs |-> ""]
    /\ prev = [r \in Runs |-> 0]
    /\ tree = [r \in Runs |-> "current"]
    /\ results = [r \in Runs |-> NoResults]
    /\ message = [r \in Runs |-> ""]
    /\ log = [r \in Runs |-> <<>>]
    /\ fn \in ConfigCalls \cup InterpretCalls \cup ResolveCalls
              \cup EarlierCalls \cup FindCalls \cup ShowCalls
    /\ fn.op = "config" /\ impl = "main" => ~fn.in.dryRun /\ ~fn.in.enableDrop
    /\ fn.op = "config" /\ impl = "main" => fn.step = "current"
    /\ fn.op = "config" /\ impl = "index" => fn.in.dryRun = DryRunOption(fn.step)
    /\ fn.op = "earlier" => impl = "main" /\ ~fn.in.dryRun /\ ~fn.in.enableDrop
    /\ fn.op = "find" => impl = "main"
    /\ fn.op = "show" => impl = "main"
    /\ fn.op = "show" /\ fn.found = "empty" => fn.chunks = <<>>
    /\ fn.op = "show" /\ fn.found = "content" => fn.chunks # <<>>

\* main.ts 70-143 / index.js 89-145: the builder runs on the inputs; neither
\* implementation calls core.setSecret, so no value is registered as a secret
BuildConfig ==
    /\ fn.op = "config" /\ fn.stage = "input"
    /\ fn' = [fn EXCEPT !.stage = "built",
                        !.cfg = IF impl = "main"
                                THEN GetCommandConfig(command, fn.in)
                                ELSE BuildSqldefArgs(command, fn.in)]
    /\ UNCHANGED pipeline

\* main.ts 189-197: runSqldef writes the command line to the debug log;
\* runSqldef of index.js (150-174) writes no command line
LogCommand ==
    /\ fn.op = "config" /\ fn.stage = "built"
    /\ impl = "main" /\ fn.cfg.ok
    /\ fn' = [fn EXCEPT !.stage = "logged", !.line = SanitizedArgs(fn.cfg.args)]
    /\ UNCHANGED pipeline

\* the body of the comment: the plan, or the fixed no-changes text
CommentBody(changes) == IF changes THEN "plan" ELSE "no changes"

\* main.ts 354-367 / index.js 361-375: the output of a successful current
\* step is read and reported
InterpretOutput ==
    /\ fn.op = "interpret" /\ fn.stage = "input"
    /\ LET changes == IF impl = "main" THEN MainHasChanges(fn.out)
                      ELSE IndexHasChanges(fn.out)
       IN fn' = [fn EXCEPT !.stage = "read", !.hasChanges = changes,
                           !.body = CommentBody(changes)]
    /\ UNCHANGED pipeline

\* main.ts 15-59 / index.js 12-69: downloadSqldef chooses the artifact
ResolveTool ==
    /\ fn.op = "resolve" /\ fn.stage = "input"
    /\ fn' = [fn EXCEPT !.stage = "resolved",
                        !.res = IF impl = "main"
                                THEN MainResolve(command, fn.platform, fn.arch, fn.version)
                                ELSE IndexResolve(command, fn.platform, fn.arch, fn.version)]
    /\ UNCHANGED pipeline

\* main.ts 336-338: run() derives the baseline configuration from the
\* current one, for the temporary file or for the file the workflow names
BuildBaselineConfig ==
    /\ fn.op = "config" /\ fn.stage = "built"
    /\ impl = "main" /\ fn.cfg.ok
    /\ \E file \in {TempFile, ExplicitBaselineFile} :
         fn' = [fn EXCEPT !.stage = "derived", !.baseFile = file,
                          !.base = BaselineConfig(fn.cfg, fn.in.schemaFile, file)]
    /\ UNCHANGED pipeline

\* main.ts 181-187, 200-233 / index.js 150-174: runSqldef starts the engine
\* and hands its exit status and output back; index.js passes no env option,
\* so the engine inherits process.env; neither assigns to process.env
RunEngine ==
    /\ fn.op = "config" /\ fn.cfg.ok
    /\ fn.stage = (IF impl = "main" THEN "logged" ELSE "built")
    /\ \E ambient \in AmbientEnvs, exit \in ExitCodes, out \in Captured :
         fn' = [fn EXCEPT !.stage = "ran",
                          !.ambient = ambient,
                          !.processEnv = ambient,
                          !.env = IF impl = "main" THEN ExecEnv(ambient, fn.cfg.env)
                                  ELSE ambient,
                          !.exit = exit,
                          !.ran = IF impl = "main" THEN MainRunResult(exit, out)
                                  ELSE IndexRunResult(exit, out)]
    /\ UNCHANGED pipeline

\* main.ts 455-521 (earlier revision): getCommandConfig
BuildEarlierConfig ==
    /\ fn.op = "earlier" /\ fn.stage = "input"
    /\ fn' = [fn EXCEPT !.stage = "built",
                        !.cfg = EarlierGetCommandConfig(command, fn.in)]
    /\ UNCHANGED pipeline

\* main.ts 252-286: createComment looks for its previous comment in the
\* listing and chooses between updateComment and createComment
FindComment ==
    /\ fn.op = "find" /\ fn.stage = "input"
    /\ fn' = [fn EXCEPT !.stage = "found",
                        !.target = FindPrevious(fn.listed),
                        !.write = IF FindPrevious(fn.listed) # 0 THEN "update"
                                  ELSE "create"]
    /\ UNCHANGED pipeline

\* main.ts 145-174: getSchemaFromBranch
ReadBaseRevision ==
    /\ fn.op = "show" /\ fn.stage = "input"
    /\ fn' = [fn EXCEPT !.stage = "returned",
                        !.file = TempFileAfterRead(fn.found, fn.chunks),
                        !.returned = SchemaFromBranchResult(fn.found)]
    /\ UNCHANGED pipeline

HelperNext ==
    \/ ReadBaseRevision
    \/ BuildConfig
    \/ LogCommand
    \/ InterpretOutput
    \/ ResolveTool
    \/ BuildBaselineConfig
    \/ RunEngine
    \/ BuildEarlierConfig
    \/ FindComment

HelperSpec == HelperInit /\ [][HelperNext]_vars

\* ------------------------------------------------------- reading the logs
Terminal(r) == pc[r] \in {"Done", "Failed"}

\* the log holds a call of this kind
Has(l, kind) == \E i \in 1..Len(l) : l[i][1] = kind

\* the log holds exactly this call
HasEvent(l, e) == \E i \in 1..Len(l) : l[i] = e

Count(l, kind) == Cardinality({ i \in 1..Len(l) : l[i][1] = kind })

\* an engine invocation of this kind exited with a non-zero status
ExitedNonZero(l, kind) ==
    \E i \in 1..(Len(l) - 1) : l[i][1] = kind /\ l[i + 1] = <<"exit", "1">>

SubprocessKinds == {"engine", "baseline", "current", "git", "chmod"}

Recognized == IF impl = "main" THEN MainCommands ELSE SupportedTypes

\* a create call is issued in this step by run r
CreateIssued(r) ==
    \E i \in (Len(log[r]) + 1)..Len(log'[r]) : log'[r][i][1] = "create"

\* ------------------------------------------------------------------ claims

\* C1: in every run the baseline-apply invocation, when a baseline exists,
\* has completed before the current-schema invocation starts, and a comment
\* create/update call comes only after the current output was interpreted.
C1_Ordering ==
    \A r \in Runs :
      LET l == log[r] IN
      /\ \A i, j \in 1..Len(l) :
           (l[i][1] = "current" /\ l[j][1] = "baseline") => j + 1 < i
      /\ (baseline[r] # "" /\ Has(l, "current")) => Has(l, "baseline")
      /\ \A j \in 1..Len(l) :
           l[j][1] \in {"create", "update"} =>
             \E i \in 1..(j - 1) :
               /\ l[i][1] = "interpret"
               /\ \E k \in 1..(i - 1) : l[k][1] = "current"

C1_Witness ==
    \E r \in Runs :
      /\ baseline[r] = TempFile
      /\ Has(log[r], "baseline") /\ Has(log[r], "current")
      /\ Has(log[r], "create")

\* C2: a non-zero exit of the baseline apply does not abort the run: a
\* warning is logged and the current-schema step is still executed.
C2_BaselineFailureTolerated ==
    \A r \in Runs :
      ExitedNonZero(log[r], "baseline") =>
        /\ HasEvent(log[r], <<"warning", "baseline">>)
        /\ Terminal(r) => Has(log[r], "current")

\* C3: a non-zero exit of the final current-schema invocation ends the run
\* in Failed with a message, with no interpretation result and no comment.
C3_CurrentFailureFatal ==
    \A r \in Runs :
      ExitedNonZero(log[r], "current") =>
        /\ pc[r] = "Failed"
        /\ message[r] # ""
        /\ ~Has(log[r], "interpret")
        /\ ~results[r].set
        /\ \A i \in 1..Len(log[r]) : log[r][i][1] \notin {"list", "create", "update"}

C3_Witness == \E r \in Runs : ExitedNonZero(log[r], "current")

\* C4: at every moment at most one comment carrying the preview marker
\* exists on the pull request.
C4_SinglePreviewComment == MarkedCount <= 1

\* C5: publishing is an upsert: a publish that starts while a preview comment
\* exists finds that comment and issues no create call; one that starts with
\* none finds none.
C5_PublishIsUpsert ==
    [][ \A r \in Runs :
          /\ (pc[r] = "list" /\ pc'[r] = "write") =>
               IF MarkedCount = 0 THEN prev'[r] = 0
               ELSE \E i \in 1..Len(comments) :
                      comments[i].marker /\ comments[i].id = prev'[r]
          /\ (pc[r] = "write" /\ prev[r] # 0) => ~CreateIssued(r)
          /\ (pc[r] = "comment" /\ MarkedCount > 0) => ~CreateIssued(r) ]_vars

\* C6: main.ts tells a schema file absent at the base revision (no baseline
\* apply at all) from one present but empty (baseline apply of the
\* materialized empty file).
C6_AbsentVersusEmpty ==
    impl = "main" =>
      \A r \in Runs :
        /\ baseRev[r] = "absent" =>
             /\ baseline[r] = ""
             /\ ~Has(log[r], "baseline")
             /\ pc[r] = "current" \/ Has(log[r], "current")
        /\ baseRev[r] = "empty" =>
             /\ baseline[r] = TempFile
             /\ pc[r] = "baseline" \/ HasEvent(log[r], <<"baseline", TempFile>>)
             /\ Has(log[r], "current") => HasEvent(log[r], <<"baseline", TempFile>>)

C6_Witness ==
    \E r1, r2 \in Runs :
      /\ baseRev[r1] = "absent" /\ Has(log[r1], "current")
      /\ baseRev[r2] = "empty" /\ HasEvent(log[r2], <<"baseline", TempFile>>)

\* C7: the temporary baseline artifact no longer exists when the run is in
\* a terminal state.
C7_ArtifactRemovedAtEnd ==
    \A r \in Runs : Terminal(r) => tmp[r] # "exists"

\* C8 (as stated): a run that ends in Failed made no create-comment or
\* update-comment call.
C8_NoCommentCallWhenFailed ==
    \A r \in Runs :
      pc[r] = "Failed" => ~Has(log[r], "create") /\ ~Has(log[r], "update")

\* C8 (amended): in a run that ends in Failed no create-comment or
\* update-comment call succeeded, so the run posted or changed no comment.
C8_NoCommentPostedWhenFailed ==
    \A r \in Runs : pc[r] = "Failed" => ~Has(log[r], "posted")

C8_Witness ==
    \E r \in Runs : pc[r] = "Failed" /\ Has(log[r], "create")

\* C9: main.ts picks the revision mode by (event, explicit baseline):
\* pull request without explicit baseline fetches the base and reads the
\* file from it; an explicit baseline is used verbatim with no fetch and no
\* revision read; otherwise exactly one invocation against the current
\* schema and no baseline step.
C9_RevisionMode ==
    impl = "main" =>
      \A r \in Runs :
        LET l == log[r] IN
        /\ (event[r] = "pull_request" /\ ~explicit) =>
             /\ Has(l, "current") =>
                  \E i, j \in 1..Len(l) :
                    i < j /\ l[i] = <<"git", "fetch">> /\ l[j] = <<"git", "show">>
             /\ \A i \in 1..Len(l) : l[i][1] = "baseline" => l[i][2] = TempFile
        /\ explicit =>
             /\ ~Has(l, "git")
             /\ Has(l, "current") => HasEvent(l, <<"baseline", ExplicitBaselineFile>>)
             /\ \A i \in 1..Len(l) : l[i][1] = "baseline" => l[i][2] = ExplicitBaselineFile
        /\ (event[r] # "pull_request" /\ ~explicit) =>
             /\ ~Has(l, "git") /\ ~Has(l, "baseline")
             /\ Count(l, "current") <= 1
             /\ pc[r] = "Done" => Count(l, "current") = 1

C9_Witness ==
    /\ impl = "main" /\ explicit
    /\ \E r \in Runs : event[r] = "push" /\ pc[r] = "Done"

\* C10: a run whose requested kind is not recognized ends in Failed with the
\* unsupported-kind error before any download and before any subprocess.
C10_UnsupportedFailsFast ==
    command \notin Recognized =>
      \A r \in Runs :
        /\ \A i \in 1..Len(log[r]) :
             log[r][i][1] \notin SubprocessKinds \cup {"download"}
        /\ Terminal(r) =>
             /\ pc[r] = "Failed"
             /\ message[r] \in {"Unsupported command", "Unsupported database type"}

\* C11: outside a pull request context, or without a posting credential,
\* the publisher makes no comment API call and returns normally: the run is
\* not Failed once its output has been interpreted.
C11_PublisherNoOp ==
    \A r \in Runs :
      (event[r] # "pull_request" \/ tokenKind = "none") =>
        /\ \A i \in 1..Len(log[r]) : log[r][i][1] \notin {"list", "create", "update"}
        /\ Has(log[r], "interpret") => pc[r] # "Failed"

C11_Witness ==
    \E r \in Runs :
      /\ event[r] = "pull_request" /\ tokenKind = "none"
      /\ Has(log[r], "interpret") /\ pc[r] = "Done"

\* C12: a comment API call that fails with a permission error is caught and
\* logged as a warning, and the run still ends in Done.
C12_PermissionFailureTolerated ==
    \A r \in Runs :
      (\E i \in 1..Len(log[r]) :
         log[r][i][1] \in {"list", "create", "update"} /\ log[r][i][2] = "forbidden") =>
        /\ HasEvent(log[r], <<"warning", "comment">>)
        /\ Terminal(r) => pc[r] = "Done"

\* ---------------------------------------------- reading the helper calls
\* the database kind that the requested command or type selects
Kind ==
    CASE command \in {"psqldef", "postgresql"} -> "postgresql"
      [] command \in {"mysqldef", "mysql"} -> "mysql"
      [] command \in {"mssqldef", "mssql"} -> "mssql"
      [] command \in {"sqlite3def", "sqlite3"} -> "sqlite"
      [] OTHER -> "none"

\* the configuration builder has returned a configuration
Built == fn.op = "config" /\ fn.stage \in {"built", "logged"} /\ fn.cfg.ok

\* every connection parameter is supplied
FullParameters ==
    fn.in.host # "" /\ fn.in.port # "" /\ fn.in.user # "" /\ fn.in.database # ""

\* the value occurs verbatim in the argument
Contains(arg, val) ==
    \E i \in 0..(Len(arg) - Len(val)) : SubSeq(arg, i + 1, i + Len(val)) = val

InArgs(args, val) == \E i \in 1..Len(args) : Contains(args[i], val)

InEnv(env, val) == \E e \in env : Contains(e[2], val)

\* the positions of the argument list that hold exactly this argument
Positions(args, arg) == { i \in 1..Len(args) : args[i] = arg }

\* the flag is followed by the value
FlagWithValue(args, flags, val) ==
    \E i \in 1..(Len(args) - 1) : args[i] \in flags /\ args[i + 1] = val

HostFlags == { Arg("-h"), Arg("--host") }

PortFlags ==
    IF Kind = "postgresql" THEN { Arg("-p"), Arg("--port") }
    ELSE { Arg("-P"), Arg("--port") }

\* C13: after a successful current step hasChanges is false exactly when the
\* trimmed output is empty or is a nothing-to-apply sentinel, and true for
\* every other output; the comment carries the plan exactly when hasChanges.
C13_SentinelIsNoChange ==
    (fn.op = "interpret" /\ fn.stage = "read") =>
        LET text == Trim(fn.out)
            nothing == text = <<>> \/ (Len(text) = 1 /\ text[1] \in Sentinels)
        IN /\ fn.hasChanges <=> ~nothing
           /\ fn.body = "plan" <=> fn.hasChanges

C15_EmptyMysqlPasswordOmitted ==
    (Built /\ Kind = "mysql" /\ fn.in.password = <<>>) =>
        /\ \A i \in 1..Len(fn.cfg.args) :
              fn.cfg.args[i][1] \notin {"-p", "--password"}
        /\ fn.cfg.env = {}

C15_Witness ==
    /\ Built /\ impl = "main" /\ command = "mysqldef" /\ fn.in.password = <<>>
    /\ FullParameters /\ FlagWithValue(fn.cfg.args, { Arg("-u") }, Arg(fn.in.user))

\* the default host and port that the specification gives for a kind
SpecifiedDefaultHost == IF Kind = "mysql" THEN "127.0.0.1" ELSE "localhost"

SpecifiedDefaultPort ==
    CASE Kind = "mysql" -> "3306"
      [] Kind = "postgresql" -> "5432"
      [] OTHER -> "1433"

\* C16: host and port are always emitted for mysql, postgresql and mssql,
\* with the defaults 127.0.0.1:3306, localhost:5432 and localhost:1433 when
\* none is supplied; sqlite has neither.
C16_HostPortAlwaysEmitted ==
    Built =>
        IF Kind = "sqlite"
        THEN \A i \in 1..Len(fn.cfg.args) : fn.cfg.args[i] \notin HostFlags \cup PortFlags
        ELSE /\ FlagWithValue(fn.cfg.args, HostFlags,
                    Arg(IF fn.in.host = "" THEN SpecifiedDefaultHost ELSE fn.in.host))
             /\ FlagWithValue(fn.cfg.args, PortFlags,
                    Arg(IF fn.in.port = "" THEN SpecifiedDefaultPort ELSE fn.in.port))

\* C16, as the code has it: main.ts always emits host and port for mysql,
\* postgresql and mssql, with localhost as the default host of all three and
\* 3306, 5432 and 1433 as the default ports; index.js emits the host and the
\* port exactly when each is supplied; sqlite has neither.
C16_HostPortByImplementation ==
    Built =>
        LET args == fn.cfg.args
            defaultPort == CASE Kind = "mysql" -> "3306"
                             [] Kind = "postgresql" -> "5432"
                             [] OTHER -> "1433"
        IN
        IF Kind = "sqlite"
        THEN \A i \in 1..Len(args) : args[i] \notin HostFlags \cup PortFlags
        ELSE IF impl = "main"
        THEN /\ FlagWithValue(args, HostFlags,
                    Arg(IF fn.in.host = "" THEN "localhost" ELSE fn.in.host))
             /\ FlagWithValue(args, PortFlags,
                    Arg(IF fn.in.port = "" THEN defaultPort ELSE fn.in.port))
        ELSE /\ IF fn.in.host = ""
                THEN \A i \in 1..Len(args) : args[i] \notin HostFlags
                ELSE FlagWithValue(args, HostFlags, Arg(fn.in.host))
             /\ IF fn.in.port = ""
                THEN \A i \in 1..Len(args) : args[i] \notin PortFlags
                ELSE FlagWithValue(args, PortFlags, Arg(fn.in.port))

C16_Witness ==
    /\ Built /\ impl = "main" /\ command = "mysqldef"
    /\ fn.in.host = "" /\ fn.in.port = ""
    /\ FlagWithValue(fn.cfg.args, HostFlags, Arg("localhost"))

\* C17: the debug line never shows the password verbatim, and the only
\* argument it masks is the one that holds the password.
C17_DebugLineMasksPassword ==
    (fn.op = "config" /\ fn.stage = "logged") =>
        LET pw == fn.in.password IN
        /\ pw # <<>> => ~InArgs(fn.line, pw)
        /\ \A i \in 1..Len(fn.line) :
              (fn.line[i] = Arg("***")) => (pw # <<>> /\ Contains(fn.cfg.args[i], pw))

\* C18: a non-empty password is registered with the secret-masking facility
\* of the host before it is placed into the arguments or the overlay.
C18_PasswordRegisteredAsSecret ==
    (Built /\ fn.in.password # <<>>
       /\ (InArgs(fn.cfg.args, fn.in.password) \/ InEnv(fn.cfg.env, fn.in.password))) =>
        fn.in.password \in fn.secrets

\* C19: every run ends in exactly one of Done, with no failure reported, or
\* Failed, with a failure message reported through core.setFailed; a run that
\* has not ended can always take its next step, so no error leaves run()
\* without being reported.
C19_SingleTerminal ==
    \A r \in Runs :
      /\ pc[r] = "Failed" <=> message[r] # ""
      /\ pc[r] = "Done" => message[r] = ""
      /\ ~Terminal(r) => ENABLED (MainNext(r) \/ IndexNext(r))

C19_Witness ==
    \E r, q \in Runs :
      /\ pc[r] = "Failed" /\ message[r] # ""
      /\ pc[q] = "Done" /\ message[q] = ""

\* the release names of the platforms and architectures that the
\* specification lists
SpecifiedOs == [linux |-> "linux", darwin |-> "darwin", win32 |-> "windows"]

SpecifiedArch == [x64 |-> "amd64", arm64 |-> "arm64", arm |-> "arm", ia32 |-> "386"]

\* C20: for linux, darwin and windows with amd64, arm64, arm and 386 the
\* artifact is <binary>_<os>_<arch>.<ext>, with ext zip on windows and tar.gz
\* elsewhere; any other platform or architecture is an unsupported-platform
\* error and nothing is downloaded.
C20_ArtifactName ==
    (fn.op = "resolve" /\ fn.stage = "resolved" /\ command \in Recognized) =>
        IF fn.platform \in DOMAIN SpecifiedOs /\ fn.arch \in DOMAIN SpecifiedArch
        THEN /\ fn.res.ok
             /\ fn.res.file =
                  << IF impl = "main" THEN command ELSE BinaryName(command),
                     SpecifiedOs[fn.platform], SpecifiedArch[fn.arch],
                     IF fn.platform = "win32" THEN "zip" ELSE "tar.gz" >>
        ELSE /\ ~fn.res.ok
             /\ fn.res.error \in {"Unsupported platform", "Unsupported architecture"}

\* C21: the artifact is fetched from the version-free path
\* releases/latest/download exactly when the requested version is "latest",
\* and from releases/download/<version> for every other version.
C21_LatestUsesVersionFreePath ==
    (fn.op = "resolve" /\ fn.stage = "resolved" /\ fn.res.ok) =>
        fn.res.path = IF fn.version = "latest"
                      THEN << "releases", "latest", "download" >>
                      ELSE << "releases", "download", fn.version >>

\* C22: buildSqldefArgs has --dry-run in its result exactly when the dryRun
\* option is set; in run() of index.js the baseline invocations are built
\* without it and the preview invocation with it.
C22_DryRunOnlyForPreview ==
    (Built /\ impl = "index") =>
        LET flagged == InArgs(fn.cfg.args, <<"--dry-run">>) IN
        /\ flagged <=> fn.in.dryRun
        /\ fn.step = "baseline" => ~flagged
        /\ fn.step = "current" => flagged

C22_Witness ==
    /\ Built /\ impl = "index" /\ fn.step = "baseline" /\ FullParameters
    /\ ~InArgs(fn.cfg.args, <<"--dry-run">>)

\* C23: a read of the schema file at the base revision that fails for another
\* reason than the path being absent there ends the run in Failed; the run
\* never goes on to the current step as if the baseline were absent.
C23_BaselineReadFailureFatal ==
    \A r \in Runs :
      baseRev[r] = "error" =>
        /\ ~Has(log[r], "current")
        /\ Terminal(r) => pc[r] = "Failed"

\* C24: a comment API call that fails for another reason than a permission
\* failure puts the run in Failed and is not swallowed as a warning.
C24_OtherCommentFailureFatal ==
    \A r \in Runs :
      (\E i \in 1..Len(log[r]) :
         log[r][i][1] \in {"list", "create", "update"} /\ log[r][i][2] = "server_error") =>
        /\ ~HasEvent(log[r], <<"warning", "comment">>)
        /\ Terminal(r) => pc[r] = "Failed"

\* C25: the runner raises no error because of the exit status of the
\* engine: for every status it returns a result with that status and the
\* captured output.
C25_RunnerNeverThrows ==
    (fn.op = "config" /\ fn.stage = "ran") =>
        /\ ~fn.ran.threw
        /\ fn.ran.exitCode = fn.exit

\* C26: the baseline configuration equals the current one in every argument
\* and in the whole overlay, except the one value after --file, which is the
\* baseline file; also when another argument has the value of the schema
\* file path.
C26_BaselineDiffersInFileOnly ==
    (fn.op = "config" /\ fn.stage = "derived") =>
        LET cur == fn.cfg.args
            bas == fn.base.args
            n == Len(cur)
        IN
        /\ fn.base.env = fn.cfg.env
        /\ Len(bas) = n
        /\ \A i \in 1..(n - 1) : bas[i] = cur[i]
        /\ bas[n] = Arg(fn.baseFile)

\* C27: the argument list ends with --file and the schema file path; a
\* supplied config file is the adjacent pair --config <path> right before
\* them, and without one no --config argument is present.
C27_FileLastConfigBefore ==
    Built =>
        LET a == fn.cfg.args
            n == Len(a)
        IN
        /\ n >= 2
        /\ a[n - 1] = Arg("--file")
        /\ a[n] = Arg(fn.in.schemaFile)
        /\ IF fn.in.configFile # ""
           THEN /\ n >= 4
                /\ a[n - 3] = Arg("--config")
                /\ a[n - 2] = Arg(fn.in.configFile)
           ELSE \A i \in 1..n : a[i] # Arg("--config")

C27_Witness ==
    /\ Built /\ impl = "main" /\ command = "psqldef"
    /\ fn.in.configFile # "" /\ fn.in.database = SchemaFile
    /\ InArgs(fn.cfg.args, Arg("--config"))

\* C28: the engine receives the ambient environment with the overlay on top:
\* ambient variables that the overlay does not name keep their value, overlay
\* variables have the overlay's value, nothing else is passed, and the
\* ambient environment itself is as it was.
C28_OverlayOnAmbient ==
    (fn.op = "config" /\ fn.stage = "ran") =>
        LET overlay == fn.cfg.env
            named == { o[1] : o \in overlay }
        IN
        /\ \A e \in fn.ambient : e[1] \notin named => e \in fn.env
        /\ \A o \in overlay : o \in fn.env
        /\ \A e \in fn.env : e \in overlay \/ (e \in fn.ambient /\ e[1] \notin named)
        /\ fn.processEnv = fn.ambient

C28_Witness ==
    /\ fn.op = "config" /\ fn.stage = "ran" /\ impl = "main"
    /\ <<"PGPASSWORD", <<"inherited">> >> \in fn.ambient
    /\ <<"PGPASSWORD", <<"s3cret">> >> \in fn.env
    /\ <<"PATH", <<"/usr/bin">> >> \in fn.env

\* the comments of the listing that the automation wrote with its marker
Matching(cs) == { i \in 1..Len(cs) : cs[i].utype = "Bot" /\ cs[i].marker }

\* C29: when several listed comments are by the automation and carry the
\* marker, the publisher updates the last of them in listing order and
\* creates none.
C29_UpdatesMostRecent ==
    (fn.op = "find" /\ fn.stage = "found" /\ Cardinality(Matching(fn.listed)) >= 2) =>
        /\ fn.write = "update"
        /\ \A i \in Matching(fn.listed) : fn.listed[i].id <= fn.target

\* the flag under which the argument list carries the value: the start of
\* the argument that holds it when the two are one argument, else the
\* argument before it
FlagOf(args, val) ==
    LET i == CHOOSE j \in 1..Len(args) : Contains(args[j], val)
    IN IF args[i] = val THEN args[i - 1][1] ELSE args[i][1]

\* C30: for mssql the flag letters of port and password are swapped with
\* respect to mysql: the port flag of mysql is the password flag of mssql,
\* and the password flag of mysql is the port flag of mssql.
C30_MssqlFlagsSwapped ==
    (fn.op \in {"config", "earlier"} /\ fn.stage = "built" /\ impl = "main"
       /\ command = "mssqldef" /\ fn.in.port # "" /\ Trim(fn.in.password) # <<>>) =>
        LET port == Arg(fn.in.port)
            pw == fn.in.password
            mssql == fn.cfg.args
            mysql == IF fn.op = "config"
                     THEN GetCommandConfig("mysqldef", fn.in).args
                     ELSE EarlierGetCommandConfig("mysqldef", fn.in).args
        IN
        /\ FlagOf(mssql, pw) = FlagOf(mysql, port)
        /\ FlagOf(mssql, port) = FlagOf(mysql, pw)

\* C31: run() of main.ts calls the publisher only on a pull request event
\* without an explicit baseline file: with an explicit baseline file, or on
\* another event, the run makes no comment API call.
C31_PublisherOnlyWithoutExplicitBaseline ==
    \A r \in Runs :
      (impl = "main" /\ (explicit \/ event[r] # "pull_request")) =>
        \A i \in 1..Len(log[r]) : log[r][i][1] \notin {"list", "create", "update"}

C31_Witness ==
    \E r \in Runs :
      /\ impl = "main" /\ explicit /\ event[r] = "pull_request" /\ tokenKind = "Bot"
      /\ Has(log[r], "interpret") /\ pc[r] = "Done"

\* C32: a baseline file that the workflow names is never removed by the run:
\* the only file that a run removes is the temporary one that it made from
\* the base revision.
C32_ExplicitBaselineKept ==
    \A r \in Runs :
      /\ \A i \in 1..Len(log[r]) :
            log[r][i][1] = "unlink" => log[r][i][2] = TempFile
      /\ explicit => ~Has(log[r], "unlink") /\ tmp[r] = "none"

C32_Witness ==
    \E r \in Runs :
      /\ impl = "main" /\ explicit /\ pc[r] = "Done"
      /\ HasEvent(log[r], <<"baseline", ExplicitBaselineFile>>)

\* C33: when getSchemaFromBranch returns the empty string its temporary file
\* is already removed; when it returns a path, the file is there and holds
\* what the read wrote to its standard output, in order.
C33_AbsentLeavesNoTempFile ==
    (fn.op = "show" /\ fn.stage = "returned") =>
        /\ fn.returned = "" => ~fn.file.exists
        /\ fn.returned # "" => (fn.file.exists /\ fn.file.content = fn.chunks)

C33_Witness ==
    /\ fn.op = "show" /\ fn.stage = "returned"
    /\ fn.found = "absent" /\ fn.returned = "" /\ ~fn.file.exists

\* C34: when the dry run of index.js executes, the working tree is at the
\* current branch, whatever happened in the baseline setup.
C34_DryRunOnCurrentBranch ==
    \A r \in Runs :
      (impl = "index" /\ Has(log[r], "current")) => tree[r] = "current"

====
